---- MODULE Spec2Model ----
(***************************************************************************)
(* Model of sv2tts/encoder/inference.py: the process-wide speaker model    *)
(* handle (load_model, is_loaded, embed_frames_batch), the partial         *)
(* utterance geometry (compute_partial_slices) and the utterance pipeline  *)
(* (embed_utterance).                                                      *)
(*                                                                         *)
(* Numbers.  overlap and min_pad_coverage are Python floats.  They are     *)
(* drawn here from the dyadic fractions k / Den, which binary floating     *)
(* point represents exactly; with the small integers involved, 1 - overlap,*)
(* partial_utterance_n_frames * (1 - overlap), the quotient (n_samples+1)  *)
(* / samples_per_frame under ceil, and the comparison coverage <           *)
(* min_pad_coverage all give in floating point the result of the exact     *)
(* rational computation, which is what the operators below compute on      *)
(* numerators over Den.                                                    *)
(***************************************************************************)
EXTENDS Integers, Sequences, FiniteSets

VARIABLES
    _model,          \* the module global _model
    _device,         \* the module global _device
    load_completed,  \* history: some load_model call has run to its end
    op,              \* the call that has just run ("idle" between calls)
    args,            \* its arguments
    ret,             \* how it ended: a returned value or a raised exception
    locals           \* what it computed and did on the way

vars == <<_model, _device, load_completed, op, args, ret, locals>>

(***************************************************************************)
(* Bounds of the model.                                                    *)
(***************************************************************************)
\* waveform lengths run over 0 .. MaxFrames * samples_per_frame
MaxFrames == 4
\* partial_utterance_n_frames runs over 1 .. MaxPartialFrames
MaxPartialFrames == 3
\* overlap and min_pad_coverage are multiples of 1 / 2^GridBits
GridBits == 2
\* length of the vectors the speaker model returns
EmbDim == 2

Den == 2 ^ GridBits

(***************************************************************************)
(* params_data                                                             *)
(***************************************************************************)
mel_window_step == 10
sampling_rate == 16000
\* the default of compute_partial_slices' partial_utterance_n_frames
\* (partial_utterance_length in params.py)
partials_n_frames == 160

(***************************************************************************)
(* compute_partial_slices                                                  *)
(***************************************************************************)
\* int(sampling_rate * mel_window_step / 1000): int() of a positive float
samples_per_frame == (sampling_rate * mel_window_step) \div 1000

\* int(np.ceil(num / den)), den > 0
CeilDiv(num, den) == -((-num) \div den)

\* int(np.round(num / den)), den > 0: numpy rounds halves to the even integer
RoundHalfEven(num, den) ==
    LET q == num \div den
        r == num - q * den
    IN  IF 2 * r < den THEN q
        ELSE IF 2 * r > den THEN q + 1
        ELSE IF q % 2 = 0 THEN q ELSE q + 1

Max(a, b) == IF a >= b THEN a ELSE b

\* variant: overlap = 1 accepted
ArgsValidLoose(cn, on) ==
    /\ 0 <= on /\ on <= Den
    /\ 0 < cn /\ cn <= Den

\* the two assert statements; overlap = on / Den, min_pad_coverage = cn / Den
ArgsValid(cn, on) ==
    /\ 0 <= on /\ on < Den
    /\ 0 < cn /\ cn <= Den

n_frames(n_samples) == CeilDiv(n_samples + 1, samples_per_frame)

\* variant: the overlap added to the hop instead of taken from it
FrameStepWrongSign(partial_utterance_n_frames, on) ==
    Max(RoundHalfEven(partial_utterance_n_frames * (Den + on), Den), 1)

\* max(int(np.round(partial_utterance_n_frames * (1 - overlap))), 1)
frame_step(partial_utterance_n_frames, on) ==
    Max(RoundHalfEven(partial_utterance_n_frames * (Den - on), Den), 1)

\* variant: the span without the extra hop
StepsShort(nf, partial_utterance_n_frames, fs) ==
    Max(1, nf - partial_utterance_n_frames + 1)

steps(nf, partial_utterance_n_frames, fs) ==
    Max(1, nf - partial_utterance_n_frames + fs + 1)

\* np.array([i, i + partial_utterance_n_frames]) as slice(start, stop)
mel_range(i, partial_utterance_n_frames) ==
    [start |-> i, stop |-> i + partial_utterance_n_frames]

\* variant: a waveform range that ends with the first sample of its last frame
WavRangeTruncated(mr) ==
    [start |-> mr.start * samples_per_frame,
     stop  |-> (mr.stop - 1) * samples_per_frame + 1]

\* mel_range * samples_per_frame
wav_range(mr) ==
    [start |-> mr.start * samples_per_frame, stop |-> mr.stop * samples_per_frame]

\* for i in range(0, steps, frame_step): append the two slices
RECURSIVE SliceLoop(_, _, _, _, _)
SliceLoop(i, stp, fs, partial_utterance_n_frames, acc) ==
    IF i >= stp THEN acc
    ELSE LET mr == mel_range(i, partial_utterance_n_frames)
         IN  SliceLoop(i + fs, stp, fs, partial_utterance_n_frames,
                       [wav_slices |-> Append(acc.wav_slices, wav_range(mr)),
                        mel_slices |-> Append(acc.mel_slices, mr)])

Last(s) == s[Len(s)]
ButLast(s) == SubSeq(s, 1, Len(s) - 1)

\* coverage < min_pad_coverage, with coverage = (n_samples - start) / (stop - start)
\* and stop > start
CoverageBelow(n_samples, last_wav_range, cn) ==
    (n_samples - last_wav_range.start) * Den
        < cn * (last_wav_range.stop - last_wav_range.start)

\* variant: a tail with coverage equal to min_pad_coverage is dropped too
TailCheckInclusive(n_samples, cn, plan) ==
    IF /\ (n_samples - Last(plan.wav_slices).start) * Den
            <= cn * (Last(plan.wav_slices).stop - Last(plan.wav_slices).start)
       /\ Len(plan.mel_slices) > 1
    THEN [wav_slices |-> ButLast(plan.wav_slices),
          mel_slices |-> ButLast(plan.mel_slices)]
    ELSE plan

\* variant: the tail is dropped without looking at the number of segments
TailCheckAlways(n_samples, cn, plan) ==
    IF CoverageBelow(n_samples, Last(plan.wav_slices), cn)
    THEN [wav_slices |-> ButLast(plan.wav_slices),
          mel_slices |-> ButLast(plan.mel_slices)]
    ELSE plan

\* "Evaluate whether extra padding is warranted or not"
TailCheck(n_samples, cn, plan) ==
    IF /\ CoverageBelow(n_samples, Last(plan.wav_slices), cn)
       /\ Len(plan.mel_slices) > 1
    THEN [wav_slices |-> ButLast(plan.wav_slices),
          mel_slices |-> ButLast(plan.mel_slices)]
    ELSE plan

EmptyPlan == [wav_slices |-> <<>>, mel_slices |-> <<>>]

\* The whole function: how it ends, and the values of its local variables.
\* A failed assert ends it before anything is computed.
compute_partial_slices(n_samples, partial_utterance_n_frames, cn, on) ==
    IF ~ ArgsValid(cn, on)
    THEN [raised |-> "AssertionError", computed |-> FALSE,
          frame_step |-> 0, pre |-> EmptyPlan, plan |-> EmptyPlan]
    ELSE LET nf  == n_frames(n_samples)
             fs  == frame_step(partial_utterance_n_frames, on)
             stp == steps(nf, partial_utterance_n_frames, fs)
             pre == SliceLoop(0, stp, fs, partial_utterance_n_frames, EmptyPlan)
         IN  [raised |-> "", computed |-> TRUE,
              frame_step |-> fs, pre |-> pre,
              plan |-> TailCheck(n_samples, cn, pre)]

(***************************************************************************)
(* Collaborators outside this file: encoder.audio and encoder.model        *)
(***************************************************************************)
\* A waveform is known by its length: orig samples of the caller's array,
\* then zeros appended (right) or prepended (left) by np.pad.
Wav(n) == [orig |-> n, left |-> 0, right |-> 0]
WavLen(wav) == wav.left + wav.orig + wav.right

\* audio.wav_to_mel_filterbank: the spectrogram of wav, known by its number of
\* frames, ceil((len(wav) + 1) / samples_per_frame)
wav_to_mel_filterbank(wav) == [n_frames |-> n_frames(WavLen(wav)), of |-> wav]

\* SpeakerEncoder.forward: one vector per item of the batch, a fixed function
\* of the weights and of the item
Forward(weights, frames_batch) ==
    [j \in 1..Len(frames_batch) |->
        [d \in 1..EmbDim |->
            ((frames_batch[j].start * d + frames_batch[j].stop + weights * d) % 3) - 1]]

\* SpeakerEncoder(_device, cpu): a model with its initial weights, in training mode
FreshModel == [kind |-> "SpeakerEncoder", weights |-> 0, eval |-> FALSE]
\* after load_state_dict(checkpoint["model_state"]) and eval()
LoadedModel == [kind |-> "SpeakerEncoder", weights |-> 1, eval |-> TRUE]
None == [kind |-> "None", weights |-> 0, eval |-> FALSE]

\* torch.load(weights_fpath) and checkpoint["model_state"]: what each file gives
WeightsFiles == {"all.pt", "missing.pt", "nostate.pt"}
LoadOutcome(weights_fpath) ==
    CASE weights_fpath = "all.pt" -> ""
      [] weights_fpath = "missing.pt" -> "FileNotFoundError"
      [] OTHER -> "KeyError"

(***************************************************************************)
(* Values                                                                  *)
(***************************************************************************)
\* An embedding is the vector v / k / sqrt(norm2.num / norm2.den); the model's
\* own output has k = 1 and norm2 = 1 / 1.  norm2.num = 0 is a division by
\* zero: numpy gives a vector of nan.
Raw(v) == [v |-> v, k |-> 1, norm2 |-> [num |-> 1, den |-> 1]]
NoEmbed == Raw(<<>>)

Absent == [tag |-> "absent", val |-> <<>>]
NoneValue == [tag |-> "None", val |-> <<>>]
Some(x) == [tag |-> "some", val |-> x]

\* How a call ends
Returned(value) == [kind |-> "return", error |-> "", value |-> value]
Raised(error) == [kind |-> "raise", error |-> error, value |-> <<>>]
NoRet == [kind |-> "", error |-> "", value |-> <<>>]

\* What embed_utterance returns: the embedding alone ("single"), or the tuple
\* (embed, partial_embeds, wave_slices)
EmbedValue(shape, embed, partial_embeds, wave_slices) ==
    [shape |-> shape, embed |-> embed, partial_embeds |-> partial_embeds,
     wave_slices |-> wave_slices]

(***************************************************************************)
(* embed_frames_batch                                                      *)
(***************************************************************************)
\* What one call does with the handle it finds: raise when it is None, else
\* one forward pass over the batch
embed_frames_batch(model, frames_batch) ==
    IF model = None
    THEN [raised |-> "ModelNotLoaded", forward_calls |-> 0, embed |-> <<>>]
    ELSE [raised |-> "", forward_calls |-> 1,
          embed |-> Forward(model.weights, frames_batch)]

(***************************************************************************)
(* embed_utterance                                                         *)
(***************************************************************************)
Min(a, b) == IF a <= b THEN a ELSE b

\* frames[s] for a slice s: numpy clips a slice to the array it indexes
FramesSlice(frames, s) ==
    [start |-> Min(s.start, frames.n_frames), stop |-> Min(s.stop, frames.n_frames)]

\* frames[None, ...]: a batch of one, the whole spectrogram
WholeBatch(frames) == << [start |-> 0, stop |-> frames.n_frames] >>

NoFrames == [n_frames |-> 0, of |-> Wav(0)]
NoSlices == [raised |-> "", computed |-> FALSE, frame_step |-> 0,
             pre |-> EmptyPlan, plan |-> EmptyPlan]

\* What a call of embed_utterance did, beside how it ended
Did(slices_calls, slices, padded, wav_fed, frames, frames_batch, forward_calls, model_out, aggregated) ==
    [slices_calls |-> slices_calls, slices |-> slices, padded |-> padded,
     wav_fed |-> wav_fed, frames |-> frames, frames_batch |-> frames_batch,
     forward_calls |-> forward_calls, model_out |-> model_out,
     aggregated |-> aggregated]

\* variant: the whole-utterance embedding handed back as its own partial
\* embedding
WholeUtteranceAsPartial(model, wav, return_partials) ==
    LET frames == wav_to_mel_filterbank(wav)
        batch  == WholeBatch(frames)
        out    == embed_frames_batch(model, batch)
        did    == Did(0, NoSlices, FALSE, wav, frames, batch, out.forward_calls,
                      out.embed, FALSE)
    IN  IF out.raised # ""
        THEN [ret |-> Raised(out.raised), did |-> did]
        ELSE IF return_partials
        THEN [ret |-> Returned(EmbedValue("tuple", Raw(out.embed[1]),
                                          Some(out.embed), NoneValue)),
              did |-> did]
        ELSE [ret |-> Returned(EmbedValue("single", Raw(out.embed[1]), Absent,
                                          Absent)),
              did |-> did]

\* "Process the entire utterance if not using partials"
WholeUtterance(model, wav, return_partials) ==
    LET frames == wav_to_mel_filterbank(wav)
        batch  == WholeBatch(frames)
        out    == embed_frames_batch(model, batch)
        did    == Did(0, NoSlices, FALSE, wav, frames, batch, out.forward_calls,
                      out.embed, FALSE)
    IN  IF out.raised # ""
        THEN [ret |-> Raised(out.raised), did |-> did]
        ELSE IF return_partials
        THEN [ret |-> Returned(EmbedValue("tuple", Raw(out.embed[1]), NoneValue,
                                        NoneValue)),
              did |-> did]
        ELSE [ret |-> Returned(EmbedValue("single", Raw(out.embed[1]), Absent,
                                        Absent)),
              did |-> did]

\* variant: the waveform is padded only when it ends before the start of the
\* last range
PadWavLate(wav, wave_slices) ==
    LET max_wave_length == Last(wave_slices).stop
    IN  IF Last(wave_slices).start >= WavLen(wav)
        THEN [padded |-> TRUE,
              wav |-> [wav EXCEPT !.right = @ + (max_wave_length - WavLen(wav))]]
        ELSE [padded |-> FALSE, wav |-> wav]

\* max_wave_length = wave_slices[-1].stop;
\* if max_wave_length >= len(wav): wav = np.pad(wav, (0, max_wave_length - len(wav)))
PadWav(wav, wave_slices) ==
    LET max_wave_length == Last(wave_slices).stop
    IN  IF max_wave_length >= WavLen(wav)
        THEN [padded |-> TRUE,
              wav |-> [wav EXCEPT !.right = @ + (max_wave_length - WavLen(wav))]]
        ELSE [padded |-> FALSE, wav |-> wav]

\* np.array([frames[s] for s in mel_slices])
FramesBatch(frames, mel_slices) ==
    [j \in 1..Len(mel_slices) |-> FramesSlice(frames, mel_slices[j])]

\* items of unequal length do not stack into one (batch, frames, channels) array
Ragged(frames_batch) ==
    \E i, j \in 1..Len(frames_batch) :
        frames_batch[i].stop - frames_batch[i].start
            # frames_batch[j].stop - frames_batch[j].start

RECURSIVE SumVectors(_, _)
SumVectors(vs, upto) ==
    IF upto = 0 THEN [d \in 1..EmbDim |-> 0]
    ELSE LET rest == SumVectors(vs, upto - 1)
         IN  [d \in 1..EmbDim |-> rest[d] + vs[upto][d]]

RECURSIVE SumSquares(_, _)
SumSquares(v, upto) ==
    IF upto = 0 THEN 0 ELSE SumSquares(v, upto - 1) + v[upto] * v[upto]

\* raw_embed = np.mean(partial_embeds, axis=0): the sum over the count
Mean(partial_embeds) ==
    [v |-> SumVectors(partial_embeds, Len(partial_embeds)),
     k |-> Len(partial_embeds), norm2 |-> [num |-> 1, den |-> 1]]

\* variant: the norm taken of the sum of the partial embeddings, not of their mean
NormaliseBySum(raw_embed) ==
    [raw_embed EXCEPT !.norm2 = [num |-> SumSquares(raw_embed.v, Len(raw_embed.v)),
                                 den |-> 1]]

\* embed = raw_embed / np.linalg.norm(raw_embed, 2), for raw_embed = v / k:
\* the squared norm is sum(v_i^2) / k^2
Normalise(raw_embed) ==
    [raw_embed EXCEPT !.norm2 = [num |-> SumSquares(raw_embed.v, Len(raw_embed.v)),
                                 den |-> raw_embed.k * raw_embed.k]]

\* "Compute where to split the utterance into partials and pad if necessary",
\* "Split the utterance into partials", "Compute the utterance embedding from
\* the partial embeddings"
PartialUtterance(model, wav, return_partials, partial_utterance_n_frames, cn, on) ==
    LET slices == compute_partial_slices(WavLen(wav), partial_utterance_n_frames,
                                         cn, on)
    IN  IF slices.raised # ""
        THEN [ret |-> Raised(slices.raised),
              did |-> Did(1, slices, FALSE, Wav(0), NoFrames, <<>>, 0, <<>>, FALSE)]
        ELSE
        LET pad    == PadWav(wav, slices.plan.wav_slices)
            frames == wav_to_mel_filterbank(pad.wav)
            batch  == FramesBatch(frames, slices.plan.mel_slices)
        IN  IF Ragged(batch)
            THEN [ret |-> Raised("RaggedBatch"),
                  did |-> Did(1, slices, pad.padded, pad.wav, frames, batch, 0,
                              <<>>, FALSE)]
            ELSE
            LET out == embed_frames_batch(model, batch)
                did == Did(1, slices, pad.padded, pad.wav, frames, batch,
                           out.forward_calls, out.embed, out.raised = "")
            IN  IF out.raised # ""
                THEN [ret |-> Raised(out.raised), did |-> did]
                ELSE
                LET embed == Normalise(Mean(out.embed))
                IN  IF return_partials
                    THEN [ret |-> Returned(EmbedValue("tuple", embed, Some(out.embed),
                                                Some(slices.plan.wav_slices))),
                          did |-> did]
                    ELSE [ret |-> Returned(EmbedValue("single", embed, Absent, Absent)),
                          did |-> did]

embed_utterance(model, wav, using_partials, return_partials, partial_utterance_n_frames, cn, on) ==
    IF ~ using_partials
    THEN WholeUtterance(model, wav, return_partials)
    ELSE PartialUtterance(model, wav, return_partials,
                          partial_utterance_n_frames, cn, on)

(***************************************************************************)
(* load_model, is_loaded                                                   *)
(***************************************************************************)
\* The globals after the call, and how it ended.  _device and _model are
\* assigned before the weights file is read.  cuda_available is the answer of
\* torch.cuda.is_available() on the host.
load_model(weights_fpath, device, cuda_available) ==
    LET dev == IF device = "None"
               THEN (IF cuda_available THEN "cuda" ELSE "cpu")
               ELSE device
        err == LoadOutcome(weights_fpath)
    IN  [device |-> dev,
         model  |-> IF err = "" THEN LoadedModel ELSE FreshModel,
         raised |-> err]

is_loaded(model) == model # None

(***************************************************************************)
(* The state machine: one action per call of a function of the module, and *)
(* Return, the caller taking the result.                                   *)
(***************************************************************************)
\* item counts of the batches given to embed_frames_batch directly
MaxBatch == 2

Devices == {"None", "cpu", "cuda"}
Lengths == 0 .. MaxFrames * samples_per_frame
\* The comparisons made on len(wav) (the frame count, coverage against
\* min_pad_coverage, max_wave_length >= len(wav)) change their outcome only
\* from one multiple of samples_per_frame / Den to the length below or above
\* it: the multiples and the lengths just below them stand for every length.
WavLengths ==
    {n \in Lengths : n % (samples_per_frame \div Den)
                        \in {0, (samples_per_frame \div Den) - 1}}
PartialFrames == 1 .. MaxPartialFrames
\* numerators over Den, the out-of-range neighbours included
Overlaps == -1 .. Den
Coverages == 0 .. Den + 1

NoArgs == <<>>
NoDid == Did(0, NoSlices, FALSE, Wav(0), NoFrames, <<>>, 0, <<>>, FALSE)

Init ==
    /\ _model = None
    /\ _device = "None"
    /\ load_completed = FALSE
    /\ op = "idle"
    /\ args = NoArgs
    /\ ret = NoRet
    /\ locals = NoDid

LoadModel ==
    /\ op = "idle"
    /\ \E weights_fpath \in WeightsFiles, device \in Devices,
          cuda_available \in BOOLEAN :
        LET r == load_model(weights_fpath, device, cuda_available)
        IN  /\ _device' = r.device
            /\ _model' = r.model
            /\ load_completed' = (load_completed \/ r.raised = "")
            /\ op' = "load_model"
            /\ args' = [weights_fpath |-> weights_fpath, device |-> device]
            /\ ret' = IF r.raised = "" THEN Returned(NoneValue) ELSE Raised(r.raised)
            /\ locals' = NoDid

IsLoaded ==
    /\ op = "idle"
    /\ op' = "is_loaded"
    /\ args' = NoArgs
    /\ ret' = Returned(is_loaded(_model))
    /\ locals' = NoDid
    /\ UNCHANGED <<_model, _device, load_completed>>

EmbedFramesBatch ==
    /\ op = "idle"
    /\ \E b \in 1..MaxBatch, P \in PartialFrames :
        LET frames_batch == [j \in 1..b |-> [start |-> j - 1, stop |-> j - 1 + P]]
            r == embed_frames_batch(_model, frames_batch)
        IN  /\ op' = "embed_frames_batch"
            /\ args' = [frames_batch |-> frames_batch]
            /\ ret' = IF r.raised = "" THEN Returned(r.embed) ELSE Raised(r.raised)
            /\ locals' = Did(0, NoSlices, FALSE, Wav(0), NoFrames, frames_batch,
                             r.forward_calls, r.embed, FALSE)
    /\ UNCHANGED <<_model, _device, load_completed>>

EmbedUtterance ==
    /\ op = "idle"
    /\ \E n \in WavLengths, using_partials \in BOOLEAN, return_partials \in BOOLEAN,
          P \in PartialFrames, cn \in Coverages, on \in Overlaps :
        LET r == embed_utterance(_model, Wav(n), using_partials, return_partials,
                                 P, cn, on)
        IN  /\ op' = "embed_utterance"
            /\ args' = [n |-> n, using_partials |-> using_partials,
                        return_partials |-> return_partials,
                        partial_utterance_n_frames |-> P,
                        min_pad_coverage |-> cn, overlap |-> on]
            /\ ret' = r.ret
            /\ locals' = r.did
    /\ UNCHANGED <<_model, _device, load_completed>>

\* a direct call, its arguments drawn from inputs
ComputePartialSlicesOn(inputs) ==
    /\ op = "idle"
    /\ \E a \in inputs :
        LET r == compute_partial_slices(a.n, a.partial_utterance_n_frames,
                                        a.min_pad_coverage, a.overlap)
        IN  /\ op' = "compute_partial_slices"
            /\ args' = a
            /\ ret' = IF r.raised = ""
                      THEN Returned(r.plan)
                      ELSE Raised(r.raised)
            /\ locals' = Did(1, r, FALSE, Wav(0), NoFrames, <<>>, 0, <<>>, FALSE)
    /\ UNCHANGED <<_model, _device, load_completed>>

SliceArgs(N) ==
    [n : N, partial_utterance_n_frames : PartialFrames,
     min_pad_coverage : Coverages, overlap : Overlaps]

\* the two scenarios with the default partial_utterance_n_frames: 2.0 s and
\* 0.5 s of audio, overlap 0.5, min_pad_coverage 0.75
Scenarios ==
    [n : {32000, 8000}, partial_utterance_n_frames : {partials_n_frames},
     min_pad_coverage : {(3 * Den) \div 4}, overlap : {Den \div 2}]

ComputePartialSlices == ComputePartialSlicesOn(SliceArgs(WavLengths))

ComputePartialSlicesAll == ComputePartialSlicesOn(SliceArgs(Lengths) \cup Scenarios)

Return ==
    /\ op # "idle"
    /\ op' = "idle"
    /\ args' = NoArgs
    /\ ret' = NoRet
    /\ locals' = NoDid
    /\ UNCHANGED <<_model, _device, load_completed>>

Next ==
    \/ LoadModel
    \/ IsLoaded
    \/ EmbedFramesBatch
    \/ EmbedUtterance
    \/ ComputePartialSlices
    \/ Return

\* the module in use: any sequence of calls
Spec == Init /\ [][Next]_vars

NextSlices ==
    \/ ComputePartialSlicesAll
    \/ Return

\* compute_partial_slices alone, on every waveform length up to the bound
SpecSlices == Init /\ [][NextSlices]_vars

(***************************************************************************)
(* Properties                                                              *)
(***************************************************************************)
\* a valid configuration, as the properties state it: 0 <= overlap < 1 and
\* 0 < min_pad_coverage <= 1 (partial_utterance_n_frames >= 1 in every call)
ValidConfig(a) ==
    /\ 0 <= a.overlap /\ a.overlap < Den
    /\ 0 < a.min_pad_coverage /\ a.min_pad_coverage <= Den
    /\ a.partial_utterance_n_frames >= 1

SlicesCall == op = "compute_partial_slices"
ValidSlicesCall == SlicesCall /\ args.n >= 1 /\ ValidConfig(args)

\* the plan enumerated before the tail check, and the returned one
PrePlan == locals.slices.pre
Plan == ret.value

\* coverage of the last range of the plan before the tail check, against
\* min_pad_coverage: (n - s) / (e - s) compared with cn / Den
LastPre == PrePlan.wav_slices[Len(PrePlan.wav_slices)]
CoverageLess == (args.n - LastPre.start) * Den
                    < args.min_pad_coverage * (LastPre.stop - LastPre.start)
CoverageEqual == (args.n - LastPre.start) * Den
                    = args.min_pad_coverage * (LastPre.stop - LastPre.start)

Scenario32000 ==
    /\ SlicesCall
    /\ args = [n |-> 32000, partial_utterance_n_frames |-> 160,
               min_pad_coverage |-> (3 * Den) \div 4, overlap |-> Den \div 2]

Scenario8000 ==
    /\ SlicesCall
    /\ args = [n |-> 8000, partial_utterance_n_frames |-> 160,
               min_pad_coverage |-> (3 * Den) \div 4, overlap |-> Den \div 2]

\* C1: for n_samples >= 1 and a valid configuration compute_partial_slices
\* returns, and both returned lists hold at least one slice.
C1_PlanNonEmpty ==
    ValidSlicesCall =>
        /\ ret.kind = "return"
        /\ Len(Plan.wav_slices) >= 1
        /\ Len(Plan.mel_slices) >= 1

\* C1 witness: a single enumerated segment whose coverage is below
\* min_pad_coverage, returned all the same.
C1_Witness ==
    /\ ValidSlicesCall
    /\ Len(PrePlan.wav_slices) = 1
    /\ CoverageLess
    /\ Len(Plan.wav_slices) = 1

\* C2: the tail-drop law.  With more than one enumerated segment and
\* coverage < min_pad_coverage the returned plan is the enumerated one without
\* its last segment, in both lists; otherwise (coverage equal to
\* min_pad_coverage included, and a single segment) it is the enumerated plan.
\* With 32000 samples, 160 frames, overlap 0.5, min_pad_coverage 0.75 the
\* enumerated segments start at frames 0 and 80, and the second, whose
\* coverage is (32000 - 12800) / 25600 = 0.75, is kept.
C2_TailDropLaw ==
    /\ ValidSlicesCall =>
        /\ ret.kind = "return"
        /\ (Len(PrePlan.wav_slices) > 1 /\ CoverageLess) =>
            /\ Len(Plan.wav_slices) = Len(PrePlan.wav_slices) - 1
            /\ Len(Plan.mel_slices) = Len(PrePlan.mel_slices) - 1
            /\ \A k \in 1..Len(Plan.wav_slices) :
                /\ Plan.wav_slices[k] = PrePlan.wav_slices[k]
                /\ Plan.mel_slices[k] = PrePlan.mel_slices[k]
        /\ ~ (Len(PrePlan.wav_slices) > 1 /\ CoverageLess) => Plan = PrePlan
    /\ Scenario32000 =>
        /\ PrePlan.mel_slices = << [start |-> 0, stop |-> 160],
                                   [start |-> 80, stop |-> 240] >>
        /\ PrePlan.wav_slices = << [start |-> 0, stop |-> 25600],
                                   [start |-> 12800, stop |-> 38400] >>
        /\ CoverageEqual
        /\ Plan = PrePlan

\* C2 witness: several segments enumerated, the last with coverage exactly
\* min_pad_coverage, and kept.
C2_Witness ==
    /\ ValidSlicesCall
    /\ args.n <= MaxFrames * samples_per_frame
    /\ Len(PrePlan.wav_slices) > 2
    /\ CoverageEqual
    /\ Len(Plan.wav_slices) = Len(PrePlan.wav_slices)

\* C3: in a returned plan the waveform starts increase strictly, every
\* waveform range is partial_utterance_n_frames * samples_per_frame long, and
\* the k-th waveform range is the k-th mel range [i, i + n_frames) times
\* samples_per_frame; the two lists are equally long.
C3_RangesAligned ==
    ValidSlicesCall =>
        /\ ret.kind = "return"
        /\ Len(Plan.wav_slices) = Len(Plan.mel_slices)
        /\ \A k \in 1..Len(Plan.wav_slices) :
            /\ Plan.mel_slices[k].stop
                = Plan.mel_slices[k].start + args.partial_utterance_n_frames
            /\ Plan.wav_slices[k].start = Plan.mel_slices[k].start * samples_per_frame
            /\ Plan.wav_slices[k].stop = Plan.mel_slices[k].stop * samples_per_frame
            /\ Plan.wav_slices[k].stop - Plan.wav_slices[k].start
                = args.partial_utterance_n_frames * samples_per_frame
        /\ \A k \in 1..(Len(Plan.wav_slices) - 1) :
            Plan.wav_slices[k + 1].start > Plan.wav_slices[k].start

\* C3 witness: the largest overlap of the grid, where
\* partial_utterance_n_frames * (1 - overlap) rounds to 0 and the hop is the
\* floor of 1, with several segments returned.
C3_Witness ==
    /\ ValidSlicesCall
    /\ args.overlap = Den - 1
    /\ 2 * args.partial_utterance_n_frames <= Den
    /\ locals.slices.frame_step = 1
    /\ Len(Plan.wav_slices) >= 3

\* n_samples is shorter than one partial utterance
ShortCall ==
    /\ ValidSlicesCall
    /\ args.n < args.partial_utterance_n_frames * samples_per_frame

\* the waveform yields exactly partial_utterance_n_frames frames, and the
\* range starting one hop in has at least min_pad_coverage of real samples
SecondSegmentCovered ==
    /\ args.n >= (args.partial_utterance_n_frames - 1) * samples_per_frame
    /\ (args.n - locals.slices.frame_step * samples_per_frame) * Den
        >= args.min_pad_coverage * args.partial_utterance_n_frames * samples_per_frame

\* C4 as stated: a waveform shorter than one partial utterance always gives
\* exactly one segment, the one starting at 0.
C4_Original ==
    ShortCall =>
        /\ ret.kind = "return"
        /\ Len(Plan.wav_slices) = 1
        /\ Plan.wav_slices[1].start = 0

\* C4 amended: a waveform shorter than one partial utterance gives a plan
\* whose first segment starts at 0 and that has exactly one segment, however
\* low its coverage (so with 8000 samples and 160 frames), except when the
\* waveform yields partial_utterance_n_frames frames and the range one hop in
\* reaches min_pad_coverage: then the plan has that second segment too.
C4_ShortWaveform ==
    /\ ShortCall =>
        /\ ret.kind = "return"
        /\ Plan.wav_slices[1].start = 0
        /\ Plan.mel_slices[1].start = 0
        /\ IF SecondSegmentCovered
           THEN /\ Len(Plan.wav_slices) = 2
                /\ Plan.mel_slices[2].start = locals.slices.frame_step
           ELSE Len(Plan.wav_slices) = 1
    /\ Scenario8000 =>
        /\ Plan.wav_slices = << [start |-> 0, stop |-> 25600] >>
        /\ Plan.mel_slices = << [start |-> 0, stop |-> 160] >>

\* C4 witness: 8000 samples against the 25600 of one partial utterance:
\* coverage 0.3125 < 0.75, one segment returned.
C4_Witness ==
    /\ Scenario8000
    /\ CoverageLess
    /\ Len(Plan.wav_slices) = 1

\* sample index x lies in one of the returned waveform ranges
Covered(x) ==
    \E k \in 1..Len(Plan.wav_slices) :
        Plan.wav_slices[k].start <= x /\ x < Plan.wav_slices[k].stop

\* C10: the first returned waveform range starts at 0 and each next one starts
\* no later than the stop of the one before; the last enumerated range stops
\* strictly after n_samples.  So with the tail kept every sample index of
\* [0, n_samples) lies in a returned range, and with the tail dropped fewer
\* than frame_step * samples_per_frame samples lie past the last returned stop.
C10_Coverage ==
    ValidSlicesCall =>
        /\ ret.kind = "return"
        /\ Plan.wav_slices[1].start = 0
        /\ \A k \in 1..(Len(Plan.wav_slices) - 1) :
            Plan.wav_slices[k + 1].start <= Plan.wav_slices[k].stop
        /\ LastPre.stop > args.n
        /\ Plan = PrePlan => \A x \in 0..(args.n - 1) : Covered(x)
        /\ Plan # PrePlan =>
            args.n - Plan.wav_slices[Len(Plan.wav_slices)].stop
                < locals.slices.frame_step * samples_per_frame

\* C10 witness: the tail dropped, and samples left past the last returned
\* range.
C10_Witness ==
    /\ ValidSlicesCall
    /\ Plan # PrePlan
    /\ args.n > Plan.wav_slices[Len(Plan.wav_slices)].stop

UtteranceCall == op = "embed_utterance"
WholeCall == UtteranceCall /\ ~ args.using_partials
PartialCall == UtteranceCall /\ args.using_partials

\* C5: with using_partials = False embed_utterance never calls
\* compute_partial_slices, never pads and never averages or renormalises.
\* Whenever a model handle is set it makes one forward pass, over a batch of
\* one holding the spectrogram of the whole unpadded waveform, and returns
\* that output as the model gave it; the partial embeddings and waveform
\* ranges are None with return_partials and not returned without it.  (With
\* no handle set the call raises before any forward pass.)
C5_WholeUtterance ==
    WholeCall =>
        /\ locals.slices_calls = 0
        /\ ~ locals.padded
        /\ ~ locals.aggregated
        /\ locals.wav_fed = [orig |-> args.n, left |-> 0, right |-> 0]
        /\ locals.frames_batch
            = << [start |-> 0, stop |-> (args.n + samples_per_frame) \div samples_per_frame] >>
        /\ _model # None =>
            /\ ret.kind = "return"
            /\ locals.forward_calls = 1
            /\ Len(locals.model_out) = 1
            /\ ret.value.embed.v = locals.model_out[1]
            /\ ret.value.embed.k = 1
            /\ ret.value.embed.norm2 = [num |-> 1, den |-> 1]
            /\ ret.value.partial_embeds.tag # "some"
            /\ ret.value.wave_slices.tag # "some"
            /\ args.return_partials =>
                /\ ret.value.shape = "tuple"
                /\ ret.value.partial_embeds.tag = "None"
                /\ ret.value.wave_slices.tag = "None"
            /\ ~ args.return_partials => ret.value.shape = "single"
        /\ _model = None =>
            /\ ret.kind = "raise"
            /\ locals.forward_calls = 0

\* C5 witness: a whole-utterance call with return_partials, a loaded model and
\* an overlap of 1, which partial mode would reject: it returns.
C5_Witness ==
    /\ WholeCall
    /\ args.return_partials
    /\ args.overlap = Den
    /\ _model = LoadedModel
    /\ ret.kind = "return"
    /\ ret.value.partial_embeds.tag = "None"

\* C7: compute_partial_slices with overlap outside [0, 1) or min_pad_coverage
\* outside (0, 1] raises and computes no slice; embed_utterance in partial
\* mode with such arguments raises before padding or reading the waveform and
\* before any forward pass, and returns nothing.
C7_InvalidConfigFailsFast ==
    /\ (SlicesCall /\ ~ ValidConfig(args)) =>
        /\ ret.kind = "raise"
        /\ ret.error = "AssertionError"
        /\ ~ locals.slices.computed
        /\ locals.slices.plan = EmptyPlan
        /\ locals.slices.pre = EmptyPlan
    /\ (PartialCall /\ ~ ValidConfig(args)) =>
        /\ ret.kind = "raise"
        /\ ret.error = "AssertionError"
        /\ ~ locals.slices.computed
        /\ ~ locals.padded
        /\ locals.wav_fed = Wav(0)
        /\ locals.frames_batch = <<>>
        /\ locals.forward_calls = 0
        /\ ~ locals.aggregated

\* C7 witness: partial mode with overlap exactly 1 and a loaded model.
C7_Witness ==
    /\ PartialCall
    /\ args.overlap = Den
    /\ args.min_pad_coverage = Den
    /\ args.n >= 1
    /\ _model = LoadedModel
    /\ ret.kind = "raise"

\* the sum over the partial embeddings of their d-th component
RECURSIVE ComponentSum(_, _, _)
ComponentSum(embeds, d, upto) ==
    IF upto = 0 THEN 0 ELSE ComponentSum(embeds, d, upto - 1) + embeds[upto][d]

RECURSIVE SeqSum(_, _)
SeqSum(xs, upto) == IF upto = 0 THEN 0 ELSE SeqSum(xs, upto - 1) + xs[upto]

\* C8: in partial mode the returned embedding is the element-wise mean of the
\* per-segment embeddings (their sum over their count) divided by the
\* Euclidean norm of that mean; so when the mean is not the zero vector the
\* squared L2 norm of the returned embedding, sum((v_d / k)^2) / norm2, is 1.
C8_UnitNorm ==
    (PartialCall /\ ret.kind = "return") =>
        LET e == ret.value.embed
            m == Len(locals.model_out)
            sq == [d \in 1..EmbDim |->
                      ComponentSum(locals.model_out, d, m)
                        * ComponentSum(locals.model_out, d, m)]
            total == SeqSum(sq, EmbDim)
        IN  /\ m = Len(locals.frames_batch)
            /\ m >= 1
            /\ e.k = m
            /\ \A d \in 1..EmbDim : e.v[d] = ComponentSum(locals.model_out, d, m)
            /\ total # 0 => total * e.norm2.den = e.k * e.k * e.norm2.num

\* C8 witness: three partial embeddings, not all equal, with a non-zero mean.
C8_Witness ==
    /\ PartialCall
    /\ ret.kind = "return"
    /\ Len(locals.model_out) = 3
    /\ locals.model_out[1] # locals.model_out[2]
    /\ ret.value.embed.norm2.num > 0

\* C9: in partial mode, for n >= 1 and a valid configuration, the waveform
\* given to the feature extractor is the caller's n samples followed by zeros
\* up to max(n, stop of the last returned waveform range); the spectrogram of
\* it has ceil((L + 1) / samples_per_frame) frames, every returned mel range
\* stops within it, every item of the batch has partial_utterance_n_frames
\* frames, and the batch is never ragged.
C9_PaddingCoversPlan ==
    (PartialCall /\ args.n >= 1 /\ ValidConfig(args)) =>
        LET plan == locals.slices.plan
            last_stop == plan.wav_slices[Len(plan.wav_slices)].stop
            L == IF args.n >= last_stop THEN args.n ELSE last_stop
        IN  /\ locals.wav_fed = [orig |-> args.n, left |-> 0, right |-> L - args.n]
            /\ locals.frames.n_frames = (L + samples_per_frame) \div samples_per_frame
            /\ locals.frames.of = locals.wav_fed
            /\ \A k \in 1..Len(plan.mel_slices) :
                plan.mel_slices[k].stop <= locals.frames.n_frames
            /\ Len(locals.frames_batch) = Len(plan.mel_slices)
            /\ \A k \in 1..Len(locals.frames_batch) :
                /\ locals.frames_batch[k] = plan.mel_slices[k]
                /\ locals.frames_batch[k].stop - locals.frames_batch[k].start
                    = args.partial_utterance_n_frames
            /\ ret.error # "RaggedBatch"

\* C9 witness: two segments kept, the last reaching past the end of the
\* waveform, which is padded with zeros on the right.
C9_Witness ==
    /\ PartialCall
    /\ args.n >= 1
    /\ ValidConfig(args)
    /\ Len(locals.slices.plan.wav_slices) = 2
    /\ locals.padded
    /\ locals.wav_fed.right > 0
    /\ locals.wav_fed.right < samples_per_frame

\* an embedding request that reaches the model: embed_frames_batch, and
\* embed_utterance unless its arguments are rejected first
EmbeddingRequest ==
    \/ op = "embed_frames_batch"
    \/ WholeCall
    \/ PartialCall /\ ValidConfig(args)

\* C6: an embedding request made while no load_model call has completed raises
\* the model-not-loaded error, makes no forward pass and returns nothing, and
\* is_loaded() is false then; once a load_model call has completed is_loaded()
\* is true.
C6_NotLoadedUntilLoadCompletes ==
    /\ (EmbeddingRequest /\ ~ load_completed) =>
        /\ ret.kind = "raise"
        /\ ret.error = "ModelNotLoaded"
        /\ locals.forward_calls = 0
        /\ ~ is_loaded(_model)
    /\ load_completed => is_loaded(_model)

\* C6, the part that holds: no embedding call changes the model handle, and a
\* handle once set is never unset.
C6_HandleStable ==
    [][/\ op' \in {"embed_frames_batch", "embed_utterance"} => _model' = _model
       /\ is_loaded(_model) => is_loaded(_model')]_vars

\* C6, what the code does instead: a handle is set as soon as a load_model
\* call has constructed the model, whether or not that call has completed.
C6_LoadedOnceConstructed ==
    /\ (EmbeddingRequest /\ _model = None) =>
        /\ ret.kind = "raise"
        /\ ret.error = "ModelNotLoaded"
        /\ locals.forward_calls = 0
    /\ (EmbeddingRequest /\ _model # None) => locals.forward_calls = 1
    /\ (_model = None) <=> (_device = "None")

====
